---- MODULE Spec2Model ----
(***************************************************************************)
(* The four Playwright verification scripts of the repository, as one      *)
(* state machine.  A run picks one script, launches the browser, registers *)
(* the script's routes, executes its steps in statement order, and leaves  *)
(* through the script's own error handling (try/except/finally, a bare     *)
(* except, or none) and the `with sync_playwright()` block.                *)
(*                                                                         *)
(* The browser is the environment: every Playwright call may return or     *)
(* raise, and once navigation has begun the page may issue requests, which *)
(* the registered route handlers intercept.                                *)
(***************************************************************************)
EXTENDS Naturals, Sequences, FiniteSets

VARIABLES
  script,      \* which script this run executes
  pc,          \* control position outside the statement list
  ip,          \* index of the next statement of Program(script)
  routes,      \* the page's registered routes, in registration order
  browser,     \* "none" | "open" | "closed"
  closeCalls,  \* number of browser.close() invocations
  pwStopped,   \* the `with sync_playwright()` block has been left
  started,     \* statement indices of the steps started so far
  inProgress,  \* statement indices of the steps started and not yet ended
  raised,      \* statement indices of the steps that raised an error
  timedOut,    \* statement indices of the steps whose wait timed out
  maxVal,      \* page_input.get_attribute("max") as read by the pagination script
  caught,      \* the exception bound to `e` in the except handler
  exc,         \* the exception propagating out of the script
  log,         \* prints and screenshots, in order
  exitCode,    \* process exit code, meaningful once pc = "done"
  lastResp,    \* the response to the page's latest request
  sessions     \* two runs side by side: each run's script, page and routes

vars == <<script, pc, ip, routes, browser, closeCalls, pwStopped, started,
          inProgress, raised, timedOut, maxVal, caught, exc, log, exitCode,
          lastResp, sessions>>

Scripts == {"dropdown", "pagination", "users_tab", "fvs"}

----------------------------------------------------------------------------
(* URLs and glob patterns, as token sequences.  "/" is a token of its own, *)
(* so that `*` (no "/") and `**` (anything) can be told apart.             *)

Origin == <<"http:", "/", "/", "localhost", "/">>

Glob(path) == <<"**", "/">> \o path

Url(path) == Origin \o path

\* The requests the page under test may issue.
Urls ==
  { Url(<<>>),
    Url(<<"api", "/", "session">>),
    Url(<<"api", "/", "user">>),
    Url(<<"api", "/", "users">>),
    Url(<<"api", "/", "users", "?", "page=1">>),
    Url(<<"api", "/", "youtube", "/", "channels">>),
    Url(<<"api", "/", "youtube", "/", "videos">>),
    Url(<<"api", "/", "youtube", "/", "videos", "?", "limit=10">>),
    Url(<<"build-metadata.json">>) }

\* page.route(glob, ...): `**` matches any characters, `*` any characters
\* other than "/", everything else matches itself; the whole URL is matched.
RECURSIVE GlobMatch(_, _)
GlobMatch(p, u) ==
  IF p = <<>> THEN u = <<>>
  ELSE IF Head(p) = "**"
    THEN \E k \in 0..Len(u) : GlobMatch(Tail(p), SubSeq(u, k + 1, Len(u)))
  ELSE IF Head(p) = "*"
    THEN \E k \in 0..Len(u) :
           /\ \A i \in 1..k : u[i] # "/"
           /\ GlobMatch(Tail(p), SubSeq(u, k + 1, Len(u)))
  ELSE /\ u # <<>>
       /\ Head(u) = Head(p)
       /\ GlobMatch(Tail(p), Tail(u))

----------------------------------------------------------------------------
(* The scripts' statements: the page.route calls, the browser calls, the   *)
(* pagination check, the success message and a trailing browser.close().   *)
(* The progress messages printed between the steps of verify_pagination    *)
(* change nothing and are left out.  A run begins with the browser         *)
(* launched; a launch that fails starts no run.                            *)

Route(line, path, body) ==
  [op |-> "route", line |-> line, pattern |-> Glob(path), status |-> 200,
   contentType |-> "application/json", body |-> body, arg |-> ""]

Stmt(op, line, arg) ==
  [op |-> op, line |-> line, pattern |-> <<>>, status |-> 0,
   contentType |-> "", body |-> "", arg |-> arg]

\* The dropdown script with its success message printed before the last
\* screenshot instead of after it.
DropdownProgramPrintsEarly ==
  << Route(6, <<"api", "/", "session">>, "dropdown_session_json"),
     Route(13, <<"api", "/", "users">>, "dropdown_users_json"),
     Route(20, <<"build-metadata.json">>, "dropdown_build_metadata_json"),
     Stmt("goto", 26, "http://localhost:3000/"),
     Stmt("click", 29, "button:Users"),
     Stmt("expect_visible", 33, "cell:Guest"),
     Stmt("click", 36, "button:Add User"),
     Stmt("expect_visible", 39, "text:User Type"),
     Stmt("select_option", 42, "GUEST"),
     Stmt("select_option", 43, "STANDARD"),
     Stmt("select_option", 44, "ADMIN"),
     Stmt("print", 55, "Verification successful"),
     Stmt("screenshot", 47, "frontend-verification/user_type_verification.png") >>

DropdownProgram ==
  << Route(6, <<"api", "/", "session">>, "dropdown_session_json"),
     Route(13, <<"api", "/", "users">>, "dropdown_users_json"),
     Route(20, <<"build-metadata.json">>, "dropdown_build_metadata_json"),
     Stmt("goto", 26, "http://localhost:3000/"),
     Stmt("click", 29, "button:Users"),
     Stmt("expect_visible", 33, "cell:Guest"),
     Stmt("click", 36, "button:Add User"),
     Stmt("expect_visible", 39, "text:User Type"),
     Stmt("select_option", 42, "GUEST"),
     Stmt("select_option", 43, "STANDARD"),
     Stmt("select_option", 44, "ADMIN"),
     Stmt("screenshot", 47, "frontend-verification/user_type_verification.png"),
     Stmt("print", 55, "Verification successful") >>

PaginationProgram ==
  << Route(10, <<"api", "/", "session">>, "pagination_session_json"),
     Route(16, <<"api", "/", "youtube", "/", "channels">>, "pagination_channels_json"),
     Route(22, <<"api", "/", "youtube", "/", "videos", "*">>, "pagination_videos_json"),
     Stmt("goto", 30, "http://localhost:5173/"),
     Stmt("expect_visible", 33, "button:Logout"),
     Stmt("click", 36, "button:YouTube"),
     Stmt("click", 39, "button:Search Database"),
     Stmt("expect_visible", 44, "button:Search"),
     Stmt("click", 45, "button:Search"),
     Stmt("expect_visible", 49, "input[type=number]"),
     Stmt("get_attribute", 51, "max"),
     Stmt("check", 54, "max_val != 1"),
     Stmt("screenshot", 59, "verification/youtube_pagination.png"),
     Stmt("print", 60, "Success: Pagination max attribute verified.") >>

UsersTabProgram ==
  << Route(10, <<"api", "/", "session">>, "users_tab_session_json"),
     Route(17, <<"api", "/", "users">>, "users_tab_users_json"),
     Stmt("goto", 24, "http://localhost:3000/"),
     Stmt("wait_for_selector", 28, "text=Loading... detached"),
     Stmt("click", 34, "text=Users"),
     Stmt("wait_for_selector", 37, "table.data-table"),
     Stmt("screenshot", 40, "frontend-verification/users_tab.png"),
     Stmt("print", 41, "Screenshot saved"),
     Stmt("close", 43, "") >>

FvsProgram ==
  << Route(11, <<"api", "/", "user">>, "fvs_user_json"),
     Route(18, <<"api", "/", "youtube", "/", "channels">>, "fvs_channels_json"),
     Route(25, <<"api", "/", "youtube", "/", "videos", "*">>, "fvs_videos_json"),
     Stmt("goto", 53, "http://localhost:4173"),
     Stmt("expect_visible", 56, "text:Storage Auth Service"),
     Stmt("click", 59, "button:YouTube"),
     Stmt("click", 62, "text:Search Database"),
     Stmt("click", 65, "button:Search"),
     Stmt("expect_visible", 68, "text:Total Results:"),
     Stmt("expect_visible", 69, "text:105"),
     Stmt("expect_visible", 72, "button:First"),
     Stmt("expect_visible", 73, "button:Previous"),
     Stmt("expect_visible", 74, "button:Next"),
     Stmt("expect_visible", 75, "button:Last"),
     Stmt("expect_value", 79, "select[1]=10"),
     Stmt("screenshot", 81, "frontend-verification/youtube_search_pagination.png"),
     Stmt("close", 83, "") >>

\* A script that navigates before its last page.route call.
SwapAt(P, n) ==
  [i \in 1..Len(P) |-> IF i = n THEN P[n + 1] ELSE IF i = n + 1 THEN P[n] ELSE P[i]]

ProgramNavigatesEarly(s) ==
  CASE s = "dropdown"   -> SwapAt(DropdownProgram, 3)
    [] s = "pagination" -> SwapAt(PaginationProgram, 3)
    [] s = "users_tab"  -> SwapAt(UsersTabProgram, 2)
    [] s = "fvs"        -> SwapAt(FvsProgram, 3)

Program(s) ==
  CASE s = "dropdown"   -> DropdownProgram
    [] s = "pagination" -> PaginationProgram
    [] s = "users_tab"  -> UsersTabProgram
    [] s = "fvs"        -> FvsProgram

NoExc == [type |-> "none", at |-> 0, timeout |-> FALSE]

SystemExit1 == [type |-> "SystemExit", at |-> 0, timeout |-> FALSE]

NoResp ==
  [url |-> <<>>, status |-> 0, contentType |-> "", body |-> "", network |-> FALSE]

\* The calls into the browser: each suspends until the browser answers.
PwOps ==
  {"goto", "click", "expect_visible", "expect_value", "select_option",
   "wait_for_selector", "get_attribute", "screenshot"}

\* The scenario's steps: the browser calls and the explicit check.
StepOps == PwOps \cup {"check"}

\* What a call raises when it fails, at statement i: waits raise TimeoutError,
\* expect() raises AssertionError once its timeout has passed, goto also fails
\* without a timeout (connection refused), screenshot fails with a plain Error.
ErrorsOf(op, i) ==
  CASE op = "goto" ->
         { [type |-> "TimeoutError", at |-> i, timeout |-> TRUE],
           [type |-> "Error", at |-> i, timeout |-> FALSE] }
    [] op \in {"expect_visible", "expect_value"} ->
         { [type |-> "AssertionError", at |-> i, timeout |-> TRUE] }
    [] op = "screenshot" ->
         { [type |-> "Error", at |-> i, timeout |-> FALSE] }
    [] OTHER ->
         { [type |-> "TimeoutError", at |-> i, timeout |-> TRUE] }

\* The values page_input.get_attribute("max") may return.
AttrVals == {"None", "1", "11"}

\* The handler that an exception raised by statement i reaches first:
\*   "except"  the script's `except Exception as e:` block
\*   "swallow" the bare `except: pass` around the loading wait
\*   "none"    no handler: the exception leaves the script
HandlerOf(s, i) ==
  CASE s = "dropdown"   -> "except"
    [] s = "pagination" -> IF Program(s)[i].line >= 28 THEN "except" ELSE "none"
    [] s = "users_tab"  -> IF Program(s)[i].line = 28 THEN "swallow" ELSE "none"
    [] s = "fvs"        -> "none"

\* Where control goes when the try statement is left (normally or not):
\* only the dropdown script has a `finally: browser.close()`.
AfterTry(s) == IF s = "dropdown" THEN "finally" ELSE "with_exit"

\* A runner that skips the statement after the current one.
NextIpSkips(i) == i + 2

\* Statements run in textual order.
NextIp(i) == i + 1

\* The exit code Python gives the process.
ExitCodeOf(e) == IF e = NoExc THEN 0 ELSE 1

ErrorShot(s) ==
  IF s = "dropdown" THEN "frontend-verification/error.png"
  ELSE "verification/error.png"

Event(kind, what, err) == [kind |-> kind, what |-> what, err |-> err]

----------------------------------------------------------------------------
(* Route interception.                                                     *)

\* The registered routes whose glob matches the request.
MatchingRoutes(rs, u) == { k \in 1..Len(rs) : GlobMatch(rs[k].pattern, u) }

SetMax(S) == CHOOSE m \in S : \A k \in S : k <= m

\* The route that handles a request: the latest registered among the matching.
HandlingRoute(rs, u) == rs[SetMax(MatchingRoutes(rs, u))]

\* A handler that lets the request go on (route.continue_()) instead of
\* fulfilling it.
RouteHandlerContinues(rule, u) ==
  [url |-> u, status |-> 200, contentType |-> "network", body |-> "network",
   network |-> TRUE]

\* lambda route: route.fulfill(status=..., content_type=..., body=...)
RouteHandler(rule, u) ==
  [url |-> u, status |-> rule.status, contentType |-> rule.contentType,
   body |-> rule.body, network |-> FALSE]

\* A request no route matches goes on to the server behind the URL.
NetworkResponses(u) ==
  { [url |-> u, status |-> st, contentType |-> "network", body |-> "network",
     network |-> TRUE] : st \in {200, 404} }

NavStarted == \E i \in started : Program(script)[i].op = "goto"

----------------------------------------------------------------------------
(* Two runs at once, each a process of its own with its own browser and    *)
(* page.  Only what bears on routing is kept of a run: it launches,        *)
(* registers its script's routes on its page, navigates, and ends; while   *)
(* it is on the page, the page issues requests.                            *)

RunIds == {"A", "B"}

NewSession(s) ==
  [script |-> s, phase |-> "launch", routes |-> <<>>, lastResp |-> NoResp]

IdleSessions == [r \in RunIds |-> NewSession("dropdown")]

\* Every run registers on one and the same page.
PageOfFirstRun(r) == "A"

\* The page a run registers its routes on and navigates: the one it created
\* itself with browser.new_page().
PageOf(r) == r

----------------------------------------------------------------------------
Init ==
  /\ script \in Scripts
  /\ pc = "launch"
  /\ ip = 1
  /\ routes = <<>>
  /\ browser = "none"
  /\ closeCalls = 0
  /\ pwStopped = FALSE
  /\ started = {}
  /\ inProgress = {}
  /\ raised = {}
  /\ timedOut = {}
  /\ maxVal = "unread"
  /\ caught = NoExc
  /\ exc = NoExc
  /\ log = <<>>
  /\ exitCode = 0
  /\ lastResp = NoResp
  /\ sessions = IdleSessions

AtStmt == pc = "run" /\ ip <= Len(Program(script))

Cur == Program(script)[ip]

\* with sync_playwright() as p: browser = p.chromium.launch(...); page = ...
Launch ==
  /\ pc = "launch"
  /\ pc' = "run"
  /\ browser' = "open"
  /\ UNCHANGED <<sessions, script, ip, routes, closeCalls, pwStopped, started, inProgress,
                 raised, timedOut, maxVal, caught, exc, log, exitCode, lastResp>>

\* page.route(pattern, handler)
RegisterRoute ==
  /\ AtStmt
  /\ Cur.op = "route"
  /\ routes' = Append(routes, Cur)
  /\ ip' = NextIp(ip)
  /\ UNCHANGED <<sessions, script, pc, browser, closeCalls, pwStopped, started, inProgress,
                 raised, timedOut, maxVal, caught, exc, log, exitCode, lastResp>>

\* Control enters a browser call.
StartStep ==
  /\ AtStmt
  /\ Cur.op \in PwOps
  /\ ip \notin started
  /\ started' = started \cup {ip}
  /\ inProgress' = inProgress \cup {ip}
  /\ UNCHANGED <<sessions, script, pc, ip, routes, browser, closeCalls, pwStopped, raised,
                 timedOut, maxVal, caught, exc, log, exitCode, lastResp>>

\* The browser call returns.
FinishStepOk ==
  /\ AtStmt
  /\ ip \in inProgress
  /\ inProgress' = inProgress \ {ip}
  /\ ip' = NextIp(ip)
  /\ log' = IF Cur.op = "screenshot"
              THEN Append(log, Event("shot", Cur.arg, NoExc))
              ELSE log
  /\ IF Cur.op = "get_attribute"
       THEN maxVal' \in AttrVals
       ELSE maxVal' = maxVal
  /\ UNCHANGED <<sessions, script, pc, routes, browser, closeCalls, pwStopped, started,
                 raised, timedOut, caught, exc, exitCode, lastResp>>

\* The browser call raises; Python hands the exception to the nearest handler.
FinishStepRaise ==
  /\ AtStmt
  /\ ip \in inProgress
  /\ \E e \in ErrorsOf(Cur.op, ip) :
       /\ inProgress' = inProgress \ {ip}
       /\ raised' = raised \cup {ip}
       /\ timedOut' = IF e.timeout THEN timedOut \cup {ip} ELSE timedOut
       /\ CASE HandlerOf(script, ip) = "swallow" ->
                 /\ ip' = NextIp(ip)
                 /\ UNCHANGED <<pc, caught, exc>>
            [] HandlerOf(script, ip) = "except" ->
                 /\ caught' = e
                 /\ pc' = "except_print"
                 /\ UNCHANGED <<ip, exc>>
            [] OTHER ->
                 /\ exc' = e
                 /\ pc' = "with_exit"
                 /\ UNCHANGED <<ip, caught>>
  /\ UNCHANGED <<sessions, script, routes, browser, closeCalls, pwStopped, started, maxVal,
                 log, exitCode, lastResp>>

\* if max_val != "1": ... (verify_pagination.py)
Check ==
  /\ AtStmt
  /\ Cur.op = "check"
  /\ started' = started \cup {ip}
  /\ IF maxVal # "1"
       THEN /\ pc' = "fail_print"
            /\ raised' = raised \cup {ip}
            /\ ip' = ip
       ELSE /\ ip' = NextIp(ip)
            /\ UNCHANGED <<pc, raised>>
  /\ UNCHANGED <<sessions, script, routes, browser, closeCalls, pwStopped, inProgress,
                 timedOut, maxVal, caught, exc, log, exitCode, lastResp>>

\* The success message.
PrintSuccess ==
  /\ AtStmt
  /\ Cur.op = "print"
  /\ log' = Append(log, Event("print", "success", NoExc))
  /\ ip' = NextIp(ip)
  /\ UNCHANGED <<sessions, script, pc, routes, browser, closeCalls, pwStopped, started,
                 inProgress, raised, timedOut, maxVal, caught, exc, exitCode,
                 lastResp>>

\* browser.close() as the last statement of the script.
CloseAtEnd ==
  /\ AtStmt
  /\ Cur.op = "close"
  /\ browser' = "closed"
  /\ closeCalls' = closeCalls + 1
  /\ ip' = NextIp(ip)
  /\ UNCHANGED <<sessions, script, pc, routes, pwStopped, started, inProgress, raised,
                 timedOut, maxVal, caught, exc, log, exitCode, lastResp>>

\* The last statement has run.
EndOfProgram ==
  /\ pc = "run"
  /\ ip > Len(Program(script))
  /\ pc' = AfterTry(script)
  /\ UNCHANGED <<sessions, script, ip, routes, browser, closeCalls, pwStopped, started,
                 inProgress, raised, timedOut, maxVal, caught, exc, log, exitCode,
                 lastResp>>

\* print(f"FAILURE: Expected max='1', got '{max_val}'")
FailPrint ==
  /\ pc = "fail_print"
  /\ log' = Append(log, Event("print", "FAILURE", NoExc))
  /\ pc' = "fail_shot"
  /\ UNCHANGED <<sessions, script, ip, routes, browser, closeCalls, pwStopped, started,
                 inProgress, raised, timedOut, maxVal, caught, exc, exitCode,
                 lastResp>>

\* page.screenshot(path="verification/failure.png"), inside the try block
FailShot ==
  /\ pc = "fail_shot"
  /\ \/ /\ log' = Append(log, Event("shot", "verification/failure.png", NoExc))
        /\ pc' = "fail_exit"
        /\ UNCHANGED caught
     \/ /\ caught' = [type |-> "Error", at |-> ip, timeout |-> FALSE]
        /\ pc' = "except_print"
        /\ UNCHANGED log
  /\ UNCHANGED <<sessions, script, ip, routes, browser, closeCalls, pwStopped, started,
                 inProgress, raised, timedOut, maxVal, exc, exitCode, lastResp>>

\* A handler that also catches SystemExit (a bare `except:`).
FailExitCaught ==
  /\ pc = "fail_exit"
  /\ caught' = SystemExit1
  /\ pc' = "except_print"
  /\ UNCHANGED <<sessions, script, ip, routes, browser, closeCalls, pwStopped,
                 started, inProgress, raised, timedOut, maxVal, exc, log,
                 exitCode, lastResp>>

\* sys.exit(1): SystemExit is no Exception, so `except Exception` lets it pass
FailExit ==
  /\ pc = "fail_exit"
  /\ exc' = SystemExit1
  /\ pc' = "with_exit"
  /\ UNCHANGED <<sessions, script, ip, routes, browser, closeCalls, pwStopped, started,
                 inProgress, raised, timedOut, maxVal, caught, log, exitCode,
                 lastResp>>

\* A handler that goes straight to the screenshot, without the message.
ExceptPrintMissing ==
  /\ pc = "except_print"
  /\ pc' = "except_shot"
  /\ UNCHANGED <<sessions, script, ip, routes, browser, closeCalls, pwStopped, started,
                 inProgress, raised, timedOut, maxVal, caught, exc, log, exitCode,
                 lastResp>>

\* except Exception as e: print(f"... {e}")
ExceptPrint ==
  /\ pc = "except_print"
  /\ log' = Append(log, Event("print", "failed", caught))
  /\ pc' = "except_shot"
  /\ UNCHANGED <<sessions, script, ip, routes, browser, closeCalls, pwStopped, started,
                 inProgress, raised, timedOut, maxVal, caught, exc, exitCode,
                 lastResp>>

\* page.screenshot(path=".../error.png") in the handler: an error it raises
\* has no handler of its own
ExceptShot ==
  /\ pc = "except_shot"
  /\ \/ /\ log' = Append(log, Event("shot", ErrorShot(script), NoExc))
        /\ pc' = "except_exit"
        /\ UNCHANGED exc
     \/ /\ exc' = [type |-> "Error", at |-> 0, timeout |-> FALSE]
        /\ pc' = AfterTry(script)
        /\ UNCHANGED log
  /\ UNCHANGED <<sessions, script, ip, routes, browser, closeCalls, pwStopped, started,
                 inProgress, raised, timedOut, maxVal, caught, exitCode, lastResp>>

\* exit(1) / sys.exit(1) at the end of the handler
ExceptExit ==
  /\ pc = "except_exit"
  /\ exc' = SystemExit1
  /\ pc' = AfterTry(script)
  /\ UNCHANGED <<sessions, script, ip, routes, browser, closeCalls, pwStopped, started,
                 inProgress, raised, timedOut, maxVal, caught, log, exitCode,
                 lastResp>>

\* finally: browser.close()
Finally ==
  /\ pc = "finally"
  /\ browser' = "closed"
  /\ closeCalls' = closeCalls + 1
  /\ pc' = "with_exit"
  /\ UNCHANGED <<sessions, script, ip, routes, pwStopped, started, inProgress, raised,
                 timedOut, maxVal, caught, exc, log, exitCode, lastResp>>

\* The `with sync_playwright()` block is left and the process ends; an
\* exception other than SystemExit is reported by Python's traceback.
WithExit ==
  /\ pc = "with_exit"
  /\ pwStopped' = TRUE
  /\ exitCode' = ExitCodeOf(exc)
  /\ log' = IF exc \notin {NoExc, SystemExit1}
              THEN Append(log, Event("traceback", "uncaught", exc))
              ELSE log
  /\ pc' = "done"
  /\ UNCHANGED <<sessions, script, ip, routes, browser, closeCalls, started, inProgress,
                 raised, timedOut, maxVal, caught, exc, lastResp>>

\* The page issues a request; the routes intercept it.
PageRequest ==
  /\ NavStarted
  /\ browser = "open"
  /\ ~pwStopped
  /\ \E u \in Urls :
       IF MatchingRoutes(routes, u) # {}
         THEN lastResp' = RouteHandler(HandlingRoute(routes, u), u)
         ELSE lastResp' \in NetworkResponses(u)
  /\ UNCHANGED <<sessions, script, pc, ip, routes, browser, closeCalls, pwStopped, started,
                 inProgress, raised, timedOut, maxVal, caught, exc, log, exitCode>>

Next ==
  \/ Launch
  \/ RegisterRoute
  \/ StartStep
  \/ FinishStepOk
  \/ FinishStepRaise
  \/ Check
  \/ PrintSuccess
  \/ CloseAtEnd
  \/ EndOfProgram
  \/ FailPrint
  \/ FailShot
  \/ FailExit
  \/ ExceptPrint
  \/ ExceptShot
  \/ ExceptExit
  \/ Finally
  \/ WithExit
  \/ PageRequest

Spec == Init /\ [][Next]_vars

----------------------------------------------------------------------------
(* The run as the scenario runner's state machine.                         *)

\* The statements that are steps of script s.
Steps(s) == { i \in DOMAIN Program(s) : Program(s)[i].op \in StepOps }

\* The routes script s registers, in order.
RoutesOf(s) == SelectSeq(Program(s), LAMBDA r : r.op = "route")

SetMin(S) == CHOOSE m \in S : \A k \in S : m <= k

\* An error is being handled or is leaving the script, or the check failed.
Failing ==
  \/ caught # NoExc
  \/ exc # NoExc
  \/ pc \in {"fail_print", "fail_shot", "fail_exit"}

RunState ==
  IF Failing THEN "Failed"
  ELSE IF started = {} THEN "Pending"
  ELSE IF AtStmt /\ Cur.op \in StepOps THEN "Running"
  ELSE "Succeeded"

\* The step the failure report names: the call the printed or traced error
\* came from, or the failed check.
FailedStepIndex ==
  IF caught # NoExc THEN caught.at
  ELSE IF exc.type \notin {"none", "SystemExit"} THEN exc.at
  ELSE IF exc = SystemExit1 \/ pc \in {"fail_print", "fail_shot", "fail_exit"} THEN ip
  ELSE 0

FailureShots ==
  {"frontend-verification/error.png", "verification/error.png",
   "verification/failure.png"}

FailureShotTaken ==
  \E k \in 1..Len(log) : log[k].kind = "shot" /\ log[k].what \in FailureShots

\* The capture in the handler failed, and the traceback names its error
\* (an error raised outside the statement list has at = 0).
CaptureFailureNoted ==
  \E k \in 1..Len(log) : log[k].kind = "traceback" /\ log[k].err.at = 0

----------------------------------------------------------------------------
(* C1: if step k is the first step to fail, then only steps 1..k were      *)
(* started, none of the later steps runs, and the failure report names     *)
(* step k.                                                                 *)
C1_FirstFailureEndsRun ==
  raised # {} =>
    /\ \A j \in started : j <= SetMin(raised)
    /\ RunState = "Failed" => FailedStepIndex = SetMin(raised)

(* C2: on every exit path of a run (all steps succeeded, a step raised, an *)
(* explicit failure exit) browser.close() has been invoked.                *)
C2_CloseOnEveryExit == pc = "done" => closeCalls >= 1

(* C3: a run that ended in Failure has captured a failure screenshot,      *)
(* unless the capture itself failed and the failure report says so.        *)
C3_FailureHasEvidence ==
  (pc = "done" /\ RunState = "Failed") =>
     FailureShotTaken \/ CaptureFailureNoted

(* C4: a wait that timed out makes the run a Failure and no later step     *)
(* is started.                                                             *)
C4_TimeoutIsFailure ==
  \A k \in timedOut :
     /\ RunState = "Failed"
     /\ \A j \in started : j <= k

(* C5: every route of the script is registered before navigation begins,   *)
(* so no request that one of the script's routes matches goes unanswered   *)
(* by it.                                                                  *)
C5_RoutesBeforeNavigation ==
  /\ NavStarted => routes = RoutesOf(script)
  /\ (lastResp # NoResp /\ lastResp.network) =>
       \A k \in 1..Len(RoutesOf(script)) :
          ~GlobMatch(RoutesOf(script)[k].pattern, lastResp.url)

C5_Witness ==
  /\ inProgress # {}
  /\ AtStmt
  /\ Cur.op = "goto"
  /\ lastResp # NoResp
  /\ ~lastResp.network

(* C6: an error raised by a step is caught and reported with its message;  *)
(* it never leaves the script as an uncaught exception.                    *)
C6_StepErrorsAreCaught ==
  /\ ~(exc.type \notin {"none", "SystemExit"} /\ exc.at \in raised)
  /\ pc = "done" =>
       \A k \in raised \ {i \in Steps(script) : Program(script)[i].op = "check"} :
          \E n \in 1..Len(log) :
             log[n].kind = "print" /\ log[n].what = "failed" /\ log[n].err.at = k

(* C8: a request that a registered pattern matches is answered with        *)
(* exactly the status, content type and body registered for that pattern,  *)
(* and not by the network.                                                 *)
C8_ResponseIsFixture ==
  lastResp # NoResp =>
    \A k \in 1..Len(routes) :
       GlobMatch(routes[k].pattern, lastResp.url) =>
          /\ lastResp.status = routes[k].status
          /\ lastResp.contentType = routes[k].contentType
          /\ lastResp.body = routes[k].body
          /\ ~lastResp.network

C8_Witness ==
  /\ lastResp.url = Url(<<"api", "/", "youtube", "/", "videos", "?", "limit=10">>)
  /\ lastResp.body = "fvs_videos_json"
  /\ lastResp.status = 200

(* C10: the run moves only Pending -> Running -> Succeeded or Failed; at   *)
(* most one step is in progress; steps start in declaration order; once    *)
(* Succeeded or Failed the state stays and no step starts.                 *)
C10_Step ==
  /\ \/ RunState' = RunState
     \/ <<RunState, RunState'>> \in
          { <<"Pending", "Running">>, <<"Running", "Succeeded">>,
            <<"Running", "Failed">> }
  /\ RunState \in {"Succeeded", "Failed"} =>
       /\ RunState' = RunState
       /\ started' = started
       /\ inProgress' = inProgress
  /\ started' # started =>
       started' = started \cup {SetMin(Steps(script) \ started)}

C10_RunStateMachine ==
  /\ [](Cardinality(inProgress) <= 1)
  /\ [][C10_Step]_vars

C10_Witness ==
  /\ pc = "done"
  /\ RunState = "Failed"
  /\ Cardinality(started) > 1

----------------------------------------------------------------------------
\* The screenshot of the except handler raised (error.png was not captured).
HandlerCaptureFailed == exc.type = "Error" /\ exc.at = 0

\* The screenshot of the failed check raised (failure.png was not captured).
CheckCaptureFailed ==
  /\ caught.type = "Error"
  /\ caught.at \in Steps(script)
  /\ Program(script)[caught.at].op = "check"

Printed(what) == \E n \in 1..Len(log) : log[n].kind = "print" /\ log[n].what = what

(* C11: when the screenshot on the failure path itself fails, the run is   *)
(* still a Failure (non-zero exit) and the message of the original failure *)
(* has been printed: the capture error does not replace it.                *)
C11_CaptureFailureKeepsOriginal ==
  /\ HandlerCaptureFailed =>
       /\ RunState = "Failed"
       /\ caught # NoExc
       /\ \E n \in 1..Len(log) :
            log[n].kind = "print" /\ log[n].what = "failed" /\ log[n].err = caught
       /\ pc = "done" => exitCode # 0
  /\ CheckCaptureFailed =>
       /\ RunState = "Failed"
       /\ Printed("FAILURE")
       /\ pc = "done" => exitCode # 0

C11_Witness ==
  /\ pc = "done"
  /\ HandlerCaptureFailed
  /\ caught.at \in raised
  /\ script = "dropdown"

----------------------------------------------------------------------------
\* The run has reported success: its success message is printed, or (a
\* script without one) the process has ended with exit code 0.
SuccessReported == Printed("success") \/ (pc = "done" /\ exitCode = 0)

\* The screenshot statement that ends the script's steps.
TrailingScreenshot(s) ==
  CHOOSE i \in Steps(s) :
    Program(s)[i].op = "screenshot" /\ \A j \in Steps(s) : j <= i

(* C12: success is reported only if every step completed without error,    *)
(* and then the trailing screenshot was attempted before the report.       *)
C12_SuccessOnlyIfAllStepsPassed ==
  SuccessReported =>
    /\ raised = {}
    /\ Steps(script) \subseteq started
    /\ TrailingScreenshot(script) \in started \ inProgress

----------------------------------------------------------------------------
(* Two concurrent runs.                                                    *)

\* The single run's variables stand still while the two runs are followed.
runVars == <<script, pc, ip, routes, browser, closeCalls, pwStopped, started,
             inProgress, raised, timedOut, maxVal, caught, exc, log, exitCode,
             lastResp>>

ConcInit ==
  /\ script = "dropdown"
  /\ pc = "launch"
  /\ ip = 1
  /\ routes = <<>>
  /\ browser = "none"
  /\ closeCalls = 0
  /\ pwStopped = FALSE
  /\ started = {}
  /\ inProgress = {}
  /\ raised = {}
  /\ timedOut = {}
  /\ maxVal = "unread"
  /\ caught = NoExc
  /\ exc = NoExc
  /\ log = <<>>
  /\ exitCode = 0
  /\ lastResp = NoResp
  /\ sessions \in [RunIds -> {NewSession(s) : s \in Scripts}]

\* browser = p.chromium.launch(...); page = browser.new_page()
SessionLaunch(r) ==
  /\ sessions[r].phase = "launch"
  /\ sessions' = [sessions EXCEPT ![r].phase = "register"]
  /\ UNCHANGED runVars

\* page.route(pattern, handler), in the script's order
SessionRegister(r) ==
  /\ sessions[r].phase = "register"
  /\ LET mine  == RoutesOf(sessions[r].script)
         done  == Cardinality({k \in 1..Len(sessions[PageOf(r)].routes) :
                                 sessions[PageOf(r)].routes[k].owner = r})
     IN /\ done < Len(mine)
        /\ sessions' =
             [sessions EXCEPT
                ![PageOf(r)].routes =
                   Append(@, [rule |-> mine[done + 1], owner |-> r])]
  /\ UNCHANGED runVars

\* page.goto(...), once every route is registered
SessionNavigate(r) ==
  /\ sessions[r].phase = "register"
  /\ Cardinality({k \in 1..Len(sessions[PageOf(r)].routes) :
                    sessions[PageOf(r)].routes[k].owner = r})
       = Len(RoutesOf(sessions[r].script))
  /\ sessions' = [sessions EXCEPT ![r].phase = "page"]
  /\ UNCHANGED runVars

\* The run's page issues a request; the routes registered on it intercept.
SessionRequest(r) ==
  /\ sessions[r].phase = "page"
  /\ LET rs == [k \in 1..Len(sessions[PageOf(r)].routes) |->
                  sessions[PageOf(r)].routes[k].rule]
     IN \E u \in Urls :
          IF MatchingRoutes(rs, u) # {}
            THEN sessions' = [sessions EXCEPT
                   ![r].lastResp = RouteHandler(HandlingRoute(rs, u), u)]
            ELSE \E resp \in NetworkResponses(u) :
                   sessions' = [sessions EXCEPT ![r].lastResp = resp]
  /\ UNCHANGED runVars

\* The run ends (its last step, an error or an exit): no more requests.
SessionEnd(r) ==
  /\ sessions[r].phase = "page"
  /\ sessions' = [sessions EXCEPT ![r].phase = "ended"]
  /\ UNCHANGED runVars

ConcNext ==
  \/ \E r \in RunIds : SessionLaunch(r)
  \/ \E r \in RunIds : SessionRegister(r)
  \/ \E r \in RunIds : SessionNavigate(r)
  \/ \E r \in RunIds : SessionRequest(r)
  \/ \E r \in RunIds : SessionEnd(r)

ConcSpec == ConcInit /\ [][ConcNext]_vars

\* The response is what one of the routes of script s gives for its URL.
AnsweredBy(resp, s) ==
  \E k \in 1..Len(RoutesOf(s)) :
     /\ GlobMatch(RoutesOf(s)[k].pattern, resp.url)
     /\ resp.status = RoutesOf(s)[k].status
     /\ resp.contentType = RoutesOf(s)[k].contentType
     /\ resp.body = RoutesOf(s)[k].body

(* C14: with two runs interleaved in any way, a request of one run is      *)
(* answered only from the routes that run registered: by one of its own    *)
(* script's routes if one matches, by the network otherwise, never by a    *)
(* route of the other run.                                                 *)
C14_RunsDoNotShareRoutes ==
  \A r \in RunIds :
     LET resp == sessions[r].lastResp
     IN resp # NoResp =>
          IF resp.network
            THEN \A k \in 1..Len(RoutesOf(sessions[r].script)) :
                    ~GlobMatch(RoutesOf(sessions[r].script)[k].pattern, resp.url)
            ELSE AnsweredBy(resp, sessions[r].script)

\* Both runs have registered `**/api/session`, with different bodies, and
\* one has had its session request answered.
C14_Witness ==
  /\ sessions["A"].script = "users_tab"
  /\ sessions["B"].script = "pagination"
  /\ sessions["B"].phase = "page"
  /\ sessions["A"].phase = "page"
  /\ sessions["A"].lastResp.body = "users_tab_session_json"
  /\ sessions["B"].lastResp.body = "pagination_session_json"

----------------------------------------------------------------------------
(* C15: the process exit code is 0 exactly when the run ended in Success;  *)
(* a run in which a step raised an error or the check failed exits with a  *)
(* non-zero code.                                                          *)
C15_ExitCodeZeroIffSuccess ==
  pc = "done" =>
    /\ exitCode = 0 <=> (raised = {} /\ RunState = "Succeeded")
    /\ (raised # {} \/ RunState = "Failed") => exitCode # 0

----------------------------------------------------------------------------
(* C17: once navigation has begun, the registered routes and their         *)
(* responders stay as they are: no later step registers, replaces or       *)
(* removes a route.                                                        *)
C17_RoutesFrozenAfterNavigation == [][NavStarted => routes' = routes]_vars

C17_Witness ==
  /\ pc = "done"
  /\ NavStarted
  /\ Steps(script) \subseteq started
  /\ routes = RoutesOf(script)
  /\ Len(routes) > 0

----------------------------------------------------------------------------
\* The screenshots taken so far, in order.
Shots == SelectSeq(log, LAMBDA ev : ev.kind = "shot")

ShotPaths == [k \in 1..Len(Shots) |-> Shots[k].what]

\* verify_pagination has read the max attribute (all earlier steps passed)
\* and has ended.
PaginationChecked == script = "pagination" /\ pc = "done" /\ maxVal # "unread"

(* C18 as stated: in the pagination check, a max attribute other than "1"  *)
(* gives exactly one screenshot, failure.png, and exit code 1; the value   *)
(* "1" gives the success screenshot only.                                  *)
C18_AsStated ==
  PaginationChecked =>
    IF maxVal # "1"
      THEN ShotPaths = <<"verification/failure.png">> /\ exitCode = 1
      ELSE ShotPaths = <<"verification/youtube_pagination.png">>

(* C18, amended: the above holds when the screenshot call itself succeeds; *)
(* when it raises, the except handler runs: neither failure.png nor the    *)
(* success screenshot exists, error.png is attempted, and the exit code    *)
(* is 1.                                                                   *)
C18_PaginationCheckOutcome ==
  PaginationChecked =>
    IF maxVal # "1"
      THEN /\ exitCode = 1
           /\ IF caught = NoExc
                THEN ShotPaths = <<"verification/failure.png">>
                ELSE ShotPaths \in {<<>>, <<"verification/error.png">>}
      ELSE IF raised = {}
        THEN ShotPaths = <<"verification/youtube_pagination.png">> /\ exitCode = 0
        ELSE /\ exitCode = 1
             /\ ShotPaths \in {<<>>, <<"verification/error.png">>}

C18_Witness ==
  /\ PaginationChecked
  /\ maxVal = "11"
  /\ ShotPaths = <<"verification/failure.png">>
  /\ exitCode = 1

----------------------------------------------------------------------------
IsSuccessPrint(ev) == ev.kind = "print" /\ ev.what = "success"

IsFailureShot(ev) == ev.kind = "shot" /\ ev.what \in FailureShots

(* C19: a run reports at most one of the two kinds of evidence: its        *)
(* success message is never printed after a failure screenshot was taken,  *)
(* and no failure screenshot is taken after the success message.           *)
C19_SuccessXorFailureEvidence ==
  \A i, j \in 1..Len(log) :
     i < j =>
       /\ ~(IsFailureShot(log[i]) /\ IsSuccessPrint(log[j]))
       /\ ~(IsSuccessPrint(log[i]) /\ IsFailureShot(log[j]))

\* A run that ended with a failure screenshot after a step raised.
C19_Witness ==
  /\ pc = "done"
  /\ script = "dropdown"
  /\ \E k \in 1..Len(log) : IsFailureShot(log[k])
  /\ \A k \in 1..Len(log) : ~IsSuccessPrint(log[k])
  /\ Cardinality(started) > 2

====
